---- MODULE Spec2Model ----
(***************************************************************************)
(* Model of the pull-request review pipeline of src/main.ts: one run of    *)
(* main(), from getPRDetails to the review submission.  JavaScript strings *)
(* are sequences of one-character strings, JavaScript values are records   *)
(* tagged with their type in field t.                                      *)
(***************************************************************************)
EXTENDS Integers, Sequences, FiniteSets, TLC

(* ---------------- bounds of the explored inputs ---------------- *)
MaxFiles == 2
MaxChunks == 2

(* ---------------- JavaScript values ---------------- *)
JNull == [t |-> "null"]
JUndef == [t |-> "undefined"]
JNum(n) == [t |-> "number", nan |-> FALSE, v |-> n]
JNaN == [t |-> "number", nan |-> TRUE, v |-> 0]
JStr(s) == [t |-> "string", s |-> s]
JArr(a) == [t |-> "array", a |-> a]
JObj(f) == [t |-> "object", f |-> f]

\* property read obj.name; the value must not be null or undefined
Get(val, name) ==
  IF val.t = "object" /\ name \in DOMAIN val.f THEN val.f[name] ELSE JUndef

\* ToBoolean, as used by `if (aiResponse)`
Truthy(val) ==
  CASE val.t \in {"null", "undefined"} -> FALSE
    [] val.t = "number" -> ~val.nan /\ val.v # 0
    [] val.t = "string" -> val.s # <<>>
    [] OTHER -> TRUE

Digits == <<"0", "1", "2", "3", "4", "5", "6", "7", "8", "9">>
IsDigit(c) == \E d \in 1..10 : Digits[d] = c
DigitVal(c) == (CHOOSE d \in 1..10 : Digits[d] = c) - 1

RECURSIVE ParseDigits(_, _)
ParseDigits(s, acc) ==
  IF s = <<>> THEN acc ELSE ParseDigits(Tail(s), acc * 10 + DigitVal(Head(s)))

RECURSIVE TrimLeft(_)
TrimLeft(s) == IF s # <<>> /\ Head(s) = " " THEN TrimLeft(Tail(s)) ELSE s

RECURSIVE TrimRight(_)
TrimRight(s) ==
  IF s # <<>> /\ s[Len(s)] = " " THEN TrimRight(SubSeq(s, 1, Len(s) - 1)) ELSE s

\* String.prototype.trim
Trim(s) == TrimRight(TrimLeft(s))

\* Number(value): the numeric conversion of createComment
Number(val) ==
  CASE val.t = "number" -> val
    [] val.t = "null" -> JNum(0)
    [] val.t = "undefined" -> JNaN
    [] val.t = "object" -> JNaN
    [] val.t = "string" ->
         LET s == Trim(val.s) IN
           IF s = <<>> THEN JNum(0)
           ELSE IF \A i \in 1..Len(s) : IsDigit(s[i]) THEN JNum(ParseDigits(s, 0))
           ELSE JNaN

\* the loose comparison `x != null`
NotNullish(val) == val.t \notin {"null", "undefined"}

(* ---------------- strings: split, glob matching ---------------- *)
RECURSIVE SplitAcc(_, _, _)
SplitAcc(s, sep, cur) ==
  IF s = <<>> THEN <<cur>>
  ELSE IF Head(s) = sep THEN <<cur>> \o SplitAcc(Tail(s), sep, <<>>)
  ELSE SplitAcc(Tail(s), sep, Append(cur, Head(s)))

\* String.prototype.split on a one-character separator
Split(s, sep) == SplitAcc(s, sep, <<>>)

RECURSIVE MapTrim(_)
MapTrim(ss) == IF ss = <<>> THEN <<>> ELSE <<Trim(Head(ss))>> \o MapTrim(Tail(ss))

NonEmpty(s) == Len(s) > 0

\* one path segment against one pattern segment; * matches any run of
\* characters of the segment
RECURSIVE Glob(_, _)
Glob(s, p) ==
  IF p = <<>> THEN s = <<>>
  ELSE IF Head(p) = "*"
    THEN Glob(s, Tail(p)) \/ (s # <<>> /\ Glob(Tail(s), p))
    ELSE s # <<>> /\ Head(s) = Head(p) /\ Glob(Tail(s), Tail(p))

HasMagic(p) == \E i \in 1..Len(p) : p[i] = "*"

\* a pattern segment with a wildcard matches no empty segment, and matches a
\* segment starting with a dot only when it starts with a dot itself
SegMatch(s, p) ==
  IF HasMagic(p)
    THEN /\ s # <<>>
         /\ (s[1] = "." => p[1] = ".")
         /\ Glob(s, p)
    ELSE s = p

GlobStar == <<"*", "*">>
DotSeg(s) == s # <<>> /\ s[1] = "."

\* the segments of the path against the segments of the pattern; a ** segment
\* matches any number of segments, none of them starting with a dot
RECURSIVE MatchOne(_, _)
MatchOne(file, pat) ==
  IF pat = <<>> THEN file = <<>>
  ELSE IF Head(pat) = GlobStar
    THEN IF Len(pat) = 1
      THEN \A i \in 1..Len(file) : ~DotSeg(file[i])
      ELSE \/ MatchOne(file, Tail(pat))
           \/ (file # <<>> /\ ~DotSeg(Head(file)) /\ MatchOne(Tail(file), pat))
    ELSE file # <<>> /\ SegMatch(Head(file), Head(pat)) /\ MatchOne(Tail(file), Tail(pat))

\* minimatch(path, pattern) with default options
minimatch(path, pattern) ==
  IF pattern = <<>> THEN path = <<>>
  ELSE MatchOne(Split(path, "/"), Split(pattern, "/"))

(* ---------------- inputs of a run ---------------- *)
DevNull == <<"/", "d", "e", "v", "/", "n", "u", "l", "l">>
ReadmeMd == <<"r", "e", "a", "d", "m", "e", ".", "m", "d">>
DocsReadmeMd == <<"d", "o", "c", "s", "/", "r", "e", "a", "d", "m", "e", ".", "m", "d">>
SrcAppTs == <<"s", "r", "c", "/", "a", "p", "p", ".", "t", "s">>
Paths == {DevNull, ReadmeMd, DocsReadmeMd, SrcAppTs}

\* values of the "exclude" input
ExcludeNone == <<>>
ExcludeMd == <<"*", ".", "m", "d">>
ExcludeDeepMdSrc == <<" ", "*", "*", "/", "*", ".", "m", "d", " ", ",", ",", " ", "s", "r", "c", "/", "*", "*">>
ExcludeTs == <<"s", "r", "c", "/", "*", ".", "t", "s", ",">>
ExcludeInputs == {ExcludeNone, ExcludeMd, ExcludeDeepMdSrc, ExcludeTs}

\* a file entry of parse-diff with n hunks; a hunk is identified by its header
MkFile(p, n) == [to |-> p, chunks |-> [i \in 1..n |-> [content |-> i]]]
FileEntries == {MkFile(p, n) : p \in Paths, n \in 0..MaxChunks}

RECURSIVE SumChunks(_)
SumChunks(files) ==
  IF files = <<>> THEN 0 ELSE Len(Head(files).chunks) + SumChunks(Tail(files))

\* the parsed diffs explored: one entry per path, at most MaxChunks hunks in all
Diffs ==
  {d \in UNION {[1..n -> FileEntries] : n \in 0..MaxFiles} :
     /\ \A i, j \in 1..Len(d) : i # j => d[i].to # d[j].to
     /\ SumChunks(d) <= MaxChunks}

CommitLists == {<<>>, <<[sha |-> "c1"]>>, <<[sha |-> "c0"], [sha |-> "c1"]>>}
EventActions == {"opened", "synchronize", "closed"}

\* review comment texts
FixA == <<"f", "i", "x", " ", "a">>
FixB == <<"f", "i", "x", " ", "b">>
FixC == <<"f", "i", "x", " ", "c">>
NotANumber == <<"n", "o", "t", "-", "a", "-", "n", "u", "m", "b", "e", "r">>

Review(line, text) == JObj([lineNumber |-> line, reviewComment |-> JStr(text)])
Body(reviews) == JObj([reviews |-> reviews])

\* a completion: error = the request threw; choices = number of choices;
\* finish = choices[0].finish_reason; content = choices[0].message.content,
\* either absent, a text that is not JSON, or the JSON value it denotes
Completion(finish, kind, val) ==
  [error |-> FALSE, choices |-> 1, finish |-> finish, content |-> [kind |-> kind, val |-> val]]
TransportError ==
  [error |-> TRUE, choices |-> 0, finish |-> "stop", content |-> [kind |-> "absent", val |-> JUndef]]
NoChoices ==
  [error |-> FALSE, choices |-> 0, finish |-> "stop", content |-> [kind |-> "absent", val |-> JUndef]]
Truncated == Completion("length", "json", Body(JArr(<<Review(JNum(5), FixA)>>)))
NotJson == Completion("stop", "text", JUndef)
NoContent == Completion("stop", "absent", JUndef)
JsonNull == Completion("stop", "json", JNull)
MissingReviews == Completion("stop", "json", JObj(<<>>))
NoFindings == Completion("stop", "json", Body(JArr(<<>>)))
OneFinding == Completion("stop", "json", Body(JArr(<<Review(JNum(5), FixA)>>)))
BadAndGood ==
  Completion("stop", "json",
    Body(JArr(<<Review(JStr(NotANumber), FixB), Review(JStr(<<"1", "1">>), FixC)>>)))
ReviewsNumber == Completion("stop", "json", Body(JNum(7)))
ReviewsString == Completion("stop", "json", Body(JStr(<<"x">>)))
ReviewsNullElement == Completion("stop", "json", Body(JArr(<<JNull>>)))
ReviewsNumberElement == Completion("stop", "json", Body(JArr(<<JNum(3)>>)))
Responses ==
  {TransportError, NoChoices, Truncated, NotJson, NoContent, JsonNull,
   MissingReviews, NoFindings, OneFinding, BadAndGood, ReviewsNumber,
   ReviewsString, ReviewsNullElement, ReviewsNumberElement}

(* ---------------- the functions of main.ts ---------------- *)
\* the sha of the last commit of the list
LatestCommitSha(commits) == commits[Len(commits)].sha

\* core.getInput("exclude").split(",").map(trim).filter(length > 0)
ParseExclude(input) == SelectSeq(MapTrim(Split(input, ",")), NonEmpty)

\* variant: only the first pattern is tried
Excluded_FirstOnly(file, excludePatterns) ==
  Len(excludePatterns) > 0 /\ minimatch(file.to, excludePatterns[1])

Excluded(file, excludePatterns) ==
  \E i \in 1..Len(excludePatterns) : minimatch(file.to, excludePatterns[i])

\* parsedDiff.filter(file => !excludePatterns.some(minimatch(file.to, pattern)))
FilterDiff(parsedDiff, excludePatterns) ==
  LET Keep(file) == ~Excluded(file, excludePatterns) IN SelectSeq(parsedDiff, Keep)

\* the (file, chunk) index pairs the two loops of analyzeCode visit, in order
RECURSIVE ReviewOrderFrom(_, _)
ReviewOrderFrom(files, fi) ==
  IF fi > Len(files) THEN <<>>
  ELSE IF files[fi].to = DevNull THEN ReviewOrderFrom(files, fi + 1)
  ELSE [ci \in 1..Len(files[fi].chunks) |-> <<fi, ci>>] \o ReviewOrderFrom(files, fi + 1)

\* variant: deleted files are not skipped
RECURSIVE ReviewOrderAllFrom(_, _)
ReviewOrderAllFrom(files, fi) ==
  IF fi > Len(files) THEN <<>>
  ELSE [ci \in 1..Len(files[fi].chunks) |-> <<fi, ci>>] \o ReviewOrderAllFrom(files, fi + 1)

ReviewOrder_NoSkip(files) == ReviewOrderAllFrom(files, 1)

ReviewOrder(files) == ReviewOrderFrom(files, 1)

\* the prompt names the file, the pull request and the hunk
createPrompt(file, chunk, details) ==
  [to |-> file.to, title |-> details.title, description |-> details.description,
   content |-> chunk.content]

Returned(val) == [threw |-> FALSE, value |-> val]
Thrown == [threw |-> TRUE, value |-> JUndef]

\* JSON.parse(res).reviews for res = content || "{}"
ParseReviews(content) ==
  CASE content.kind = "absent" -> Returned(JUndef)
    [] content.kind = "text" -> Thrown
    [] content.kind = "json" ->
         IF content.val.t \in {"null", "undefined"} THEN Thrown
         ELSE Returned(Get(content.val, "reviews"))

\* variant: the finish reason is not looked at
getAIResponse_NoLengthCheck(r) ==
  IF r.error THEN Returned(JNull)
  ELSE IF r.choices = 0 THEN Thrown
  ELSE IF ParseReviews(r.content).threw THEN Returned(JNull)
  ELSE ParseReviews(r.content)

\* getAIResponse: the value returned, or threw when the catch block throws
\* itself (it reads response.choices[0].message of a response without choices)
getAIResponse(r) ==
  IF r.error THEN Returned(JNull)
  ELSE IF r.choices = 0 THEN Thrown
  ELSE IF r.finish = "length" THEN Returned(JNull)
  ELSE IF ParseReviews(r.content).threw THEN Returned(JNull)
  ELSE ParseReviews(r.content)

\* the elements `for (... of aiResponses)` iterates over
Iterable(val) == val.t \in {"array", "string"}
Elements(val) ==
  IF val.t = "array" THEN val.a ELSE [i \in 1..Len(val.s) |-> JStr(<<val.s[i]>>)]

\* the body of the loop of createComment for one element
CommentFor(file, aiResponse) ==
  LET lineNumber == Number(Get(aiResponse, "lineNumber")) IN
    IF NotNullish(lineNumber)
      THEN <<[body |-> Get(aiResponse, "reviewComment"), path |-> file.to, line |-> lineNumber]>>
      ELSE <<>>

RECURSIVE CommentsFor(_, _)
CommentsFor(file, elems) ==
  IF elems = <<>> THEN <<>>
  ELSE CommentFor(file, Head(elems)) \o CommentsFor(file, Tail(elems))

\* createComment: threw when aiResponses is not iterable or an element is
\* null or undefined (reading .lineNumber of it)
createComment(file, chunk, aiResponses) ==
  IF ~Iterable(aiResponses) THEN [threw |-> TRUE, comments |-> <<>>]
  ELSE IF \E i \in 1..Len(Elements(aiResponses)) : ~NotNullish(Elements(aiResponses)[i])
    THEN [threw |-> TRUE, comments |-> <<>>]
  ELSE [threw |-> FALSE, comments |-> CommentsFor(file, Elements(aiResponses))]

\* variant: the new comments are put in front
PushAll_Prepend(comments, newComments) == newComments \o comments

\* comments.push(...newComments)
PushAll(comments, newComments) == comments \o newComments

\* the body of the inner loop of analyzeCode after the model call returned
ReviewChunk(file, chunk, comments, r) ==
  LET ai == getAIResponse(r) IN
    IF ai.threw THEN [threw |-> TRUE, comments |-> comments]
    ELSE IF ~Truthy(ai.value) THEN [threw |-> FALSE, comments |-> comments]
    ELSE LET new == createComment(file, chunk, ai.value) IN
      IF new.threw THEN [threw |-> TRUE, comments |-> comments]
      ELSE [threw |-> FALSE, comments |-> PushAll(comments, new.comments)]

\* variant: the review is submitted whatever the list holds
ShouldSubmit_Always(comments) == Len(comments) >= 0

\* main: `if (comments.length > 0)`
ShouldSubmit(comments) == Len(comments) > 0

\* variant: a review rejected with 422 is submitted a second time
createReviewComment_Retry(log, details, comments, outcome) ==
  LET call == [owner |-> details.owner, repo |-> details.repo,
               pull_number |-> details.pull_number, commit_id |-> details.commit_id,
               comments |-> comments, event |-> "COMMENT", outcome |-> outcome]
  IN IF outcome = 422 THEN <<call, call>> ELSE <<call>>

\* octokit.pulls.createReview is called once; its rejection is caught
createReviewComment(log, details, comments, outcome) ==
  Append(log, [owner |-> details.owner, repo |-> details.repo,
               pull_number |-> details.pull_number, commit_id |-> details.commit_id,
               comments |-> comments, event |-> "COMMENT", outcome |-> outcome])

(* ---------------- one run of main() ---------------- *)
VARIABLES
  pc,              \* position of main(), named after the state of the run
  prDetails,       \* PRDetails returned by getPRDetails
  parsedDiff,      \* parseDiff(diff)
  excludePatterns, \* the parsed "exclude" input
  filteredDiff,    \* the files handed to analyzeCode
  pos,             \* index in ReviewOrder(filteredDiff) of the current chunk
  inflight,        \* a model call has been issued and has not returned
  lastResponse,    \* the completion the last model call ended with
  comments,        \* the comments list of analyzeCode
  calls,           \* the prompts the model endpoint has received, in order
  reviewed,        \* per returned call: the chunk and the value of getAIResponse
  submissions      \* the calls of octokit.pulls.createReview, in order

vars ==
  <<pc, prDetails, parsedDiff, excludePatterns, filteredDiff, pos, inflight,
    lastResponse, comments, calls, reviewed, submissions>>

NoDetails ==
  [owner |-> "", repo |-> "", pull_number |-> 0, title |-> "", description |-> "",
   commit_id |-> ""]
NoResponse == [error |-> FALSE, choices |-> 0, finish |-> "none",
               content |-> [kind |-> "absent", val |-> JUndef]]

Init ==
  /\ pc = "Start"
  /\ prDetails = NoDetails
  /\ parsedDiff = <<>>
  /\ excludePatterns = <<>>
  /\ filteredDiff = <<>>
  /\ pos = 1
  /\ inflight = FALSE
  /\ lastResponse = NoResponse
  /\ comments = <<>>
  /\ calls = <<>>
  /\ reviewed = <<>>
  /\ submissions = <<>>

\* getPRDetails resolves
GetPRDetails ==
  /\ pc = "Start"
  /\ \E commits \in CommitLists :
       /\ commits # <<>>
       /\ prDetails' = [owner |-> "o", repo |-> "r", pull_number |-> 1,
                        title |-> "t", description |-> "d",
                        commit_id |-> LatestCommitSha(commits)]
  /\ pc' = "Details"
  /\ UNCHANGED <<parsedDiff, excludePatterns, filteredDiff, pos, inflight,
                 lastResponse, comments, calls, reviewed, submissions>>

\* getPRDetails rejects: a request fails, or the commit list is empty and
\* latestCommit.sha is read of undefined
GetPRDetailsFails ==
  /\ pc = "Start"
  /\ pc' = "Failed"
  /\ UNCHANGED <<prDetails, parsedDiff, excludePatterns, filteredDiff, pos, inflight,
                 lastResponse, comments, calls, reviewed, submissions>>

\* the event is neither "opened" nor "synchronize", or getDiff returns nothing
NoDiff ==
  /\ pc = "Details"
  /\ \E action \in EventActions, diff \in {"null", "empty", "text"} :
       action \notin {"opened", "synchronize"} \/ diff # "text"
  /\ pc' = "NoOp"
  /\ UNCHANGED <<prDetails, parsedDiff, excludePatterns, filteredDiff, pos, inflight,
                 lastResponse, comments, calls, reviewed, submissions>>

\* getDiff returns a diff text
GetDiff ==
  /\ pc = "Details"
  /\ \E action \in EventActions : action \in {"opened", "synchronize"}
  /\ pc' = "Diff"
  /\ UNCHANGED <<prDetails, parsedDiff, excludePatterns, filteredDiff, pos, inflight,
                 lastResponse, comments, calls, reviewed, submissions>>

\* getDiff rejects
GetDiffFails ==
  /\ pc = "Details"
  /\ pc' = "Failed"
  /\ UNCHANGED <<prDetails, parsedDiff, excludePatterns, filteredDiff, pos, inflight,
                 lastResponse, comments, calls, reviewed, submissions>>

\* parseDiff(diff)
ParseDiff ==
  /\ pc = "Diff"
  /\ \E d \in Diffs : parsedDiff' = d
  /\ pc' = "Parsed"
  /\ UNCHANGED <<prDetails, excludePatterns, filteredDiff, pos, inflight,
                 lastResponse, comments, calls, reviewed, submissions>>

\* parseDiff throws
ParseDiffFails ==
  /\ pc = "Diff"
  /\ pc' = "Failed"
  /\ UNCHANGED <<prDetails, parsedDiff, excludePatterns, filteredDiff, pos, inflight,
                 lastResponse, comments, calls, reviewed, submissions>>

\* excludePatterns and filteredDiff are computed, analyzeCode is entered
FilterFiles ==
  /\ pc = "Parsed"
  /\ \E input \in ExcludeInputs :
       /\ excludePatterns' = ParseExclude(input)
       /\ filteredDiff' = FilterDiff(parsedDiff, ParseExclude(input))
  /\ pc' = "Filtered"
  /\ pos' = 1
  /\ comments' = <<>>
  /\ UNCHANGED <<prDetails, parsedDiff, inflight, lastResponse, calls, reviewed,
                 submissions>>

CurFile == filteredDiff[ReviewOrder(filteredDiff)[pos][1]]
CurChunk == CurFile.chunks[ReviewOrder(filteredDiff)[pos][2]]

\* analyzeCode: createPrompt and the request of getAIResponse for the next chunk
ModelCall ==
  /\ pc \in {"Filtered", "PerChunkReview"}
  /\ ~inflight
  /\ pos <= Len(ReviewOrder(filteredDiff))
  /\ calls' = Append(calls, createPrompt(CurFile, CurChunk, prDetails))
  /\ inflight' = TRUE
  /\ pc' = "PerChunkReview"
  /\ UNCHANGED <<prDetails, parsedDiff, excludePatterns, filteredDiff, pos,
                 lastResponse, comments, reviewed, submissions>>

\* analyzeCode: the request ends with completion r; the rest of getAIResponse,
\* createComment and the push run; an exception rejects main
ModelReturn ==
  /\ pc = "PerChunkReview"
  /\ inflight
  /\ \E r \in Responses :
       LET res == ReviewChunk(CurFile, CurChunk, comments, r) IN
         /\ lastResponse' = r
         /\ comments' = res.comments
         /\ reviewed' = Append(reviewed,
              [fi |-> ReviewOrder(filteredDiff)[pos][1],
               ci |-> ReviewOrder(filteredDiff)[pos][2],
               ai |-> getAIResponse(r)])
         /\ pc' = IF res.threw THEN "Failed" ELSE "PerChunkReview"
         /\ pos' = IF res.threw THEN pos ELSE pos + 1
  /\ inflight' = FALSE
  /\ UNCHANGED <<prDetails, parsedDiff, excludePatterns, filteredDiff, calls,
                 submissions>>

\* analyzeCode returns comments
Aggregate ==
  /\ pc \in {"Filtered", "PerChunkReview"}
  /\ ~inflight
  /\ pos > Len(ReviewOrder(filteredDiff))
  /\ pc' = "Aggregated"
  /\ UNCHANGED <<prDetails, parsedDiff, excludePatterns, filteredDiff, pos, inflight,
                 lastResponse, comments, calls, reviewed, submissions>>

\* main: comments.length > 0, createReviewComment; the platform accepts the
\* review, rejects it with 422 or fails otherwise
SubmitReview ==
  /\ pc = "Aggregated"
  /\ ShouldSubmit(comments)
  /\ \E outcome \in {200, 422, 500} :
       submissions' = createReviewComment(submissions, prDetails, comments, outcome)
  /\ pc' = "Submitted"
  /\ UNCHANGED <<prDetails, parsedDiff, excludePatterns, filteredDiff, pos, inflight,
                 lastResponse, comments, calls, reviewed>>

\* main: "No comments to post."
SkipReview ==
  /\ pc = "Aggregated"
  /\ ~ShouldSubmit(comments)
  /\ pc' = "Skipped"
  /\ UNCHANGED <<prDetails, parsedDiff, excludePatterns, filteredDiff, pos, inflight,
                 lastResponse, comments, calls, reviewed, submissions>>

Next ==
  \/ GetPRDetails
  \/ GetPRDetailsFails
  \/ NoDiff
  \/ GetDiff
  \/ GetDiffFails
  \/ ParseDiff
  \/ ParseDiffFails
  \/ FilterFiles
  \/ ModelCall
  \/ ModelReturn
  \/ Aggregate
  \/ SubmitReview
  \/ SkipReview

Spec == Init /\ [][Next]_vars

Terminal == pc \in {"Submitted", "Skipped", "NoOp", "Failed"}

TypeOK ==
  /\ pc \in {"Start", "Details", "Diff", "Parsed", "Filtered", "PerChunkReview",
             "Aggregated", "Submitted", "Skipped", "NoOp", "Failed"}
  /\ pos \in 1..(Len(ReviewOrder(filteredDiff)) + 1)
  /\ inflight \in BOOLEAN
  /\ Len(submissions) <= 1

(* ---------------- properties ---------------- *)
AfterFilter == pc \in {"Filtered", "PerChunkReview", "Aggregated", "Submitted", "Skipped"}
Returns == pc \in {"Aggregated", "Submitted", "Skipped"}

\* the chunks of the files of the list that are not deletions
Reviewable(files) ==
  UNION {{<<fi, ci>> : ci \in 1..Len(files[fi].chunks)} :
           fi \in {i \in 1..Len(files) : files[i].to # DevNull}}

\* a model call has just returned
CallReturned == inflight /\ ~inflight'

\* the body follows the schema: an object with an array "reviews" of objects
\* having lineNumber and reviewComment
SchemaOK(val) ==
  /\ val.t = "object"
  /\ "reviews" \in DOMAIN val.f
  /\ val.f.reviews.t = "array"
  /\ \A i \in 1..Len(val.f.reviews.a) :
       /\ val.f.reviews.a[i].t = "object"
       /\ {"lineNumber", "reviewComment"} \subseteq DOMAIN val.f.reviews.a[i].f

\* a completion whose body follows the schema
WellFormed(r) ==
  /\ ~r.error
  /\ r.choices = 1
  /\ r.finish = "stop"
  /\ r.content.kind = "json"
  /\ SchemaOK(r.content.val)

\* the findings of a well-formed completion whose lineNumber parses to a number
NumericFindings(r) ==
  LET fs == r.content.val.f.reviews.a IN
    {i \in 1..Len(fs) : ~Number(Get(fs[i], "lineNumber")).nan}

\* C1: of the findings of one chunk, those whose lineNumber does not parse to a
\* number contribute no comment record and the others contribute one each, so
\* every record added has a finite line
C1_MalformedFindingDropped ==
  [][(CallReturned /\ WellFormed(lastResponse'))
       => /\ Len(comments') = Len(comments) + Cardinality(NumericFindings(lastResponse'))
          /\ \A i \in (Len(comments) + 1)..Len(comments') : ~comments'[i].line.nan]_vars

\* transport failure, non-JSON body or schema-violating body
FailedCall(r) ==
  \/ r.error
  \/ /\ r.choices = 1
     /\ r.finish = "stop"
     /\ \/ r.content.kind = "text"
        \/ r.content.kind = "json" /\ ~SchemaOK(r.content.val)

\* C2: a chunk whose model call fails (transport, non-JSON, schema violation)
\* contributes no comment and does not abort the run: the comments of the
\* other chunks are kept and the next chunk is reviewed
C2_FailureIsolated ==
  [][(CallReturned /\ FailedCall(lastResponse'))
       => (comments' = comments /\ pc' = "PerChunkReview" /\ pos' = pos + 1)]_vars

\* C3 (as stated): once the files are filtered, no entry with target /dev/null
\* is in the filtered list and no prompt is built for such an entry
C3_DeletionFilteredOut ==
  /\ AfterFilter => \A i \in 1..Len(filteredDiff) : filteredDiff[i].to # DevNull
  /\ \A i \in 1..Len(calls) : calls[i].to # DevNull

\* C3 (amended): no prompt is ever built, and no model call issued, for a chunk
\* of an entry with target /dev/null, whatever the exclusion patterns; the
\* entry itself stays in the filtered list unless a pattern matches its path
C3_DeletionNeverReviewed ==
  /\ \A i \in 1..Len(calls) : calls[i].to # DevNull
  /\ \A i \in 1..Len(reviewed) : filteredDiff[reviewed[i].fi].to # DevNull
  /\ AfterFilter =>
       \A i \in 1..Len(parsedDiff) :
         (parsedDiff[i].to = DevNull /\ ~Excluded(parsedDiff[i], excludePatterns))
           => \E j \in 1..Len(filteredDiff) : filteredDiff[j] = parsedDiff[i]

C3_Witness ==
  /\ pc = "Aggregated"
  /\ calls # <<>>
  /\ excludePatterns = <<>>
  /\ \E i \in 1..Len(filteredDiff) :
       filteredDiff[i].to = DevNull /\ Len(filteredDiff[i].chunks) > 0

\* C4: when analyzeCode returns no comment, createReview is never called and
\* the run ends Skipped, never Submitted
C4_EmptyShortCircuit ==
  /\ (Returns /\ comments = <<>>) => (submissions = <<>> /\ pc # "Submitted")
  /\ submissions # <<>> => comments # <<>>

C4_Witness ==
  /\ pc = "Skipped"
  /\ Len(reviewed) = 2
  /\ lastResponse = NotJson
  /\ submissions = <<>>

\* C5: when analyzeCode returns comments, createReview is called exactly once,
\* after every chunk was reviewed, with the whole list and the commit id of
\* prDetails; a rejected review is not submitted again
C5_SingleSubmission ==
  /\ Len(submissions) <= 1
  /\ (pc \in {"Submitted", "Skipped"} /\ comments # <<>>) =>
       /\ pc = "Submitted"
       /\ Len(submissions) = 1
  /\ submissions # <<>> =>
       /\ submissions[1].comments = comments
       /\ submissions[1].commit_id = prDetails.commit_id
       /\ ~inflight
       /\ {<<reviewed[i].fi, reviewed[i].ci>> : i \in 1..Len(reviewed)}
            = Reviewable(filteredDiff)

C5_Witness ==
  /\ pc = "Submitted"
  /\ submissions[1].outcome = 422
  /\ Len(comments) >= 2
  /\ Len(reviewed) = 2

\* the comments createComment produces for one reviewed chunk
Produced(e) ==
  IF ~e.ai.threw /\ Truthy(e.ai.value)
    THEN createComment(filteredDiff[e.fi], filteredDiff[e.fi].chunks[e.ci], e.ai.value).comments
    ELSE <<>>

RECURSIVE ConcatProduced(_)
ConcatProduced(log) ==
  IF log = <<>> THEN <<>> ELSE Produced(Head(log)) \o ConcatProduced(Tail(log))

\* C6: the list analyzeCode returns is the concatenation, in file order and
\* then chunk order, of the records createComment produced for every chunk of
\* the files that are not deletions, each with the path of its file
C6_Concatenation ==
  Returns =>
    /\ comments = ConcatProduced(reviewed)
    /\ \A i, j \in 1..Len(reviewed) :
         i < j => \/ reviewed[i].fi < reviewed[j].fi
                  \/ reviewed[i].fi = reviewed[j].fi /\ reviewed[i].ci < reviewed[j].ci
    /\ {<<reviewed[i].fi, reviewed[i].ci>> : i \in 1..Len(reviewed)}
         = Reviewable(filteredDiff)

C6_Witness ==
  /\ pc = "Aggregated"
  /\ Len(reviewed) = 2
  /\ Len(Produced(reviewed[1])) = 2
  /\ Len(Produced(reviewed[2])) = 1
  /\ reviewed[1].fi # reviewed[2].fi

\* C7: a completion with finish reason "length" adds no comment and raises no
\* exception, whatever its content: the comments so far are kept and the run
\* goes on with the next chunk
C7_TruncationDegrades ==
  [][(CallReturned /\ ~lastResponse'.error /\ lastResponse'.choices = 1
        /\ lastResponse'.finish = "length")
       => /\ comments' = comments
          /\ pc' = "PerChunkReview"
          /\ pos' = pos + 1
          /\ reviewed'[Len(reviewed')].ai = Returned(JNull)]_vars

C7_Witness ==
  /\ pc = "Submitted"
  /\ lastResponse = Truncated
  /\ Len(reviewed) = 2
  /\ comments # <<>>

\* the index in parsedDiff of the k-th entry no pattern matches
KeptIndices ==
  {i \in 1..Len(parsedDiff) :
     \A j \in 1..Len(excludePatterns) : ~minimatch(parsedDiff[i].to, excludePatterns[j])}
KthKept(k) == CHOOSE i \in KeptIndices : Cardinality({j \in KeptIndices : j < i}) = k - 1

\* C8: the filtered list consists of exactly the entries of the parsed diff
\* whose path matches no exclusion pattern, in their order and unchanged;
\* without patterns it is the parsed diff
C8_FilterSubsequence ==
  AfterFilter =>
    /\ Len(filteredDiff) = Cardinality(KeptIndices)
    /\ \A k \in 1..Len(filteredDiff) : filteredDiff[k] = parsedDiff[KthKept(k)]
    /\ excludePatterns = <<>> => filteredDiff = parsedDiff

C8_Witness ==
  /\ pc = "Filtered"
  /\ Len(excludePatterns) = 2
  /\ Len(parsedDiff) = 2
  /\ Len(filteredDiff) = 1
  /\ filteredDiff[1] = parsedDiff[2]

\* C9: the run fails only before the files are filtered: from Start (metadata
\* or diff fetch) or while parsing
C9_FailedOnlyEarly ==
  [][(pc' = "Failed" /\ pc # "Failed") => pc \in {"Start", "Details", "Diff", "Parsed"}]_vars

\* C10: every run that has filtered its files calls the model exactly once for
\* each chunk of the files that are not deletions and for no other chunk, one
\* call at a time
C10_OneCallPerChunk ==
  /\ \A i, j \in 1..Len(calls) : i # j => calls[i] # calls[j]
  /\ \A i \in 1..Len(calls) :
       \E p \in Reviewable(filteredDiff) :
         calls[i] = createPrompt(filteredDiff[p[1]], filteredDiff[p[1]].chunks[p[2]], prDetails)
  /\ Len(calls) \in {Len(reviewed), Len(reviewed) + 1}
  /\ (Returns \/ (pc = "Failed" /\ calls # <<>>)) =>
       Len(calls) = Cardinality(Reviewable(filteredDiff))

====
